---- MODULE Spec2Model ----
(***************************************************************************)
(* czds-request (cmd/czds-request/request.go): the command's main() as a   *)
(* state machine.  One action per remote call of the czds client (a        *)
(* blocking round trip: the call and its return are one step), with the    *)
(* statements around the call folded into the action.  Strings are         *)
(* sequences of one-character strings, so that strings.Split is computed   *)
(* and not assumed.  The model starts at line 75, where checkFlags() has   *)
(* returned and the password is held: flag parsing and password retrieval  *)
(* issue no remote call and are not part of the orchestration.             *)
(***************************************************************************)
EXTENDS Integers, Sequences, FiniteSets, TLC

(* ------------------------------ bounds -------------------------------- *)
\* longest -extend / -cancel flag value, in characters
MaxListLen == 2

\* longest flag value given to strings.Split on its own, in characters
MaxSplitLen == 4

\* most zones of the registry, and longest exclusion list, given to the
\* set resolver on its own
MaxUniverse == 3
MaxExclude == 2

(* ------------------------------ inputs -------------------------------- *)
Sep == ","
Char == {"a", Sep}

Str(n) == UNION {[1..k -> Char] : k \in 0..n}

\* values of -request and of -exclude: absent, or a zone and an empty token
ArgValues == {<<>>, <<"a", Sep>>}

\* values of -reason: absent, or some text
Reasons == {<<>>, <<"r">>}

\* what the registry may answer to a bulk call: the zones it acted on
BulkResults == {<<>>, << <<"a">> >>}

\* what the registry may answer to GetTLDStatus
StatusResults == {<<>>, << [TLD |-> <<"a">>, CurrentStatus |-> "approved"] >>}

\* request identifiers the registry may answer to GetZoneRequestID
RequestIDs == {"id1", "id2"}

(* ------------------------------- state -------------------------------- *)
VARIABLES
    printTerms, status, requestAll, extendAll,   \* boolean flags
    requestTLDs, extendTLDs, cancelTLDs,         \* list flags (raw strings)
    exclude, reason,                             \* string flags
    universe,       \* the zones the registry knows, enumerated by the bulk calls
    pc,             \* position in main()
    doRequest, doExtend, doCancel,               \* locals of main()
    excludeList,    \* local of main()
    err,            \* main()'s err variable: "nil" or "error"
    requestedTLDs, extendedTLDs,                 \* locals of the request / extend blocks
    tlds, idx,      \* the list a loop ranges over and the loop's position
    zoneID,         \* cancelRequest()'s zoneID
    calls,          \* every remote call issued so far, in order, with its outcome
    out,            \* lines printed on standard output
    fatal,          \* the message of log.Fatal, "" if none
    exit            \* "running", "exit0" or "exit1"

flagVars == <<printTerms, status, requestAll, extendAll, requestTLDs,
              extendTLDs, cancelTLDs, exclude, reason, universe>>
doVars == <<doRequest, doExtend, doCancel, excludeList>>
vars == <<printTerms, status, requestAll, extendAll, requestTLDs, extendTLDs,
          cancelTLDs, exclude, reason, universe, pc, doRequest, doExtend, doCancel,
          excludeList, err, requestedTLDs, extendedTLDs, tlds, idx, zoneID,
          calls, out, fatal, exit>>

(* ------------------------------ helpers ------------------------------- *)
\* strings.Split(s, ","): the tokens between separators, in order; a string
\* with n separators yields n+1 tokens.
RECURSIVE SplitFrom(_, _, _, _)
SplitFrom(s, k, cur, acc) ==
    IF k > Len(s) THEN Append(acc, cur)
    ELSE IF s[k] = Sep THEN SplitFrom(s, k + 1, <<>>, Append(acc, cur))
    ELSE SplitFrom(s, k + 1, Append(cur, s[k]), acc)

\* a split that drops the empty tokens, as strings.FieldsFunc would
SplitDroppingEmpty(s) ==
    SelectSeq(SplitFrom(s, 1, <<>>, <<>>), LAMBDA t : Len(t) > 0)

Split(s) == SplitFrom(s, 1, <<>>, <<>>)

Call(op, arg, ok) == [op |-> op, arg |-> arg, ok |-> ok]

\* a call that returns a value besides its error
CallRes(op, arg, ok, res) == [op |-> op, arg |-> arg, ok |-> ok, res |-> res]

Line(kind, val) == [kind |-> kind, val |-> val]

ErrOf(ok) == IF ok THEN "nil" ELSE "error"

\* the blocks of main() with the status block moved before the terms block
WorkflowsStatusFirst == <<"status", "terms", "request", "extend", "cancel">>

\* the blocks of main() after authentication, in program order
Workflows == <<"terms", "status", "request", "extend", "cancel">>

RECURSIVE IndexOf(_, _, _)
IndexOf(seq, x, k) ==
    IF k > Len(seq) THEN 0
    ELSE IF seq[k] = x THEN k
    ELSE IndexOf(seq, x, k + 1)

\* the block that follows block w; after the last one main() returns
After(w) ==
    LET k == IndexOf(Workflows, w, 1)
    IN IF k < Len(Workflows) THEN Workflows[k + 1] ELSE "return"

\* log.Fatal(msg) / os.Exit(1): the process ends with failure
Fatal(msg) ==
    /\ pc' = "exited"
    /\ fatal' = msg
    /\ exit' = "exit1"

(* ------------------------------- Init --------------------------------- *)
Init ==
    /\ printTerms \in BOOLEAN
    /\ status \in BOOLEAN
    /\ requestAll \in BOOLEAN
    /\ extendAll \in BOOLEAN
    /\ requestTLDs \in ArgValues
    /\ extendTLDs \in Str(MaxListLen)
    /\ cancelTLDs \in Str(MaxListLen)
    /\ exclude \in ArgValues
    /\ reason \in Reasons
    /\ universe = <<>>
    /\ pc = "setup"
    /\ doRequest = FALSE
    /\ doExtend = FALSE
    /\ doCancel = FALSE
    /\ excludeList = <<>>
    /\ err = "nil"
    /\ requestedTLDs = <<>>
    /\ extendedTLDs = <<>>
    /\ tlds = <<>>
    /\ idx = 0
    /\ zoneID = ""
    /\ calls = <<>>
    /\ out = <<>>
    /\ fatal = ""
    /\ exit = "running"

(* ------------------------------ actions ------------------------------- *)
loopVars == <<tlds, idx, zoneID>>
resultVars == <<requestedTLDs, extendedTLDs>>

\* line 75 with >= for >: there is always something to request
DoRequestAlways == requestAll \/ Len(requestTLDs) >= 0

\* line 75
DoRequest == requestAll \/ Len(requestTLDs) > 0
\* line 76
DoExtend == extendAll \/ Len(extendTLDs) > 0
\* line 77
DoCancel == Len(extendTLDs) > 0

\* Setup with the test of line 78 lost
SetupWithoutCheck ==
    /\ pc = "setup"
    /\ doRequest' = DoRequest
    /\ doExtend' = DoExtend
    /\ doCancel' = DoCancel
    /\ excludeList' = Split(exclude)
    /\ pc' = "auth"
    /\ UNCHANGED <<fatal, exit>>
    /\ UNCHANGED <<flagVars, err, resultVars, loopVars, calls, out>>

\* lines 75-87: what is there to do, the exclusion list, the client
Setup ==
    /\ pc = "setup"
    /\ doRequest' = DoRequest
    /\ doExtend' = DoExtend
    /\ doCancel' = DoCancel
    /\ IF ~printTerms /\ ~status /\ ~(DoRequest \/ DoExtend) /\ ~DoCancel
       THEN /\ Fatal("Nothing to do!")
            /\ excludeList' = excludeList
       ELSE /\ excludeList' = Split(exclude)
            /\ pc' = "auth"
            /\ UNCHANGED <<fatal, exit>>
    /\ UNCHANGED <<flagVars, err, resultVars, loopVars, calls, out>>

\* Authenticate with the test of line 92 lost: a failed authentication goes on
AuthenticateUnchecked ==
    /\ pc = "auth"
    /\ \E ok \in BOOLEAN :
          /\ calls' = Append(calls, Call("Authenticate", <<>>, ok))
          /\ err' = ErrOf(ok)
          /\ pc' = Workflows[1]
          /\ UNCHANGED <<fatal, exit>>
    /\ UNCHANGED <<flagVars, doVars, resultVars, loopVars, out>>

\* lines 89-94: client.Authenticate()
Authenticate ==
    /\ pc = "auth"
    /\ \E ok \in BOOLEAN :
          /\ calls' = Append(calls, Call("Authenticate", <<>>, ok))
          /\ err' = ErrOf(ok)
          /\ IF ~ok
             THEN Fatal("error")
             ELSE /\ pc' = Workflows[1]
                  /\ UNCHANGED <<fatal, exit>>
    /\ UNCHANGED <<flagVars, doVars, resultVars, loopVars, out>>

\* Terms that authenticates the client again before fetching the terms
TermsReauthenticates ==
    /\ pc = "terms"
    /\ IF printTerms
       THEN \E ok \in BOOLEAN :
               /\ calls' = calls \o <<Call("Authenticate", <<>>, TRUE),
                                      Call("GetTerms", <<>>, ok)>>
               /\ IF ~ok
                  THEN /\ Fatal("error")
                       /\ out' = out
                  ELSE /\ out' = Append(out, Line("Terms and Conditions:", <<>>))
                       /\ pc' = After("terms")
                       /\ UNCHANGED <<fatal, exit>>
       ELSE /\ pc' = After("terms")
            /\ UNCHANGED <<calls, out, fatal, exit>>
    /\ UNCHANGED <<flagVars, doVars, err, resultVars, loopVars>>

\* lines 96-105: client.GetTerms(); its err is a new variable of the block
Terms ==
    /\ pc = "terms"
    /\ IF printTerms
       THEN \E ok \in BOOLEAN :
               /\ calls' = Append(calls, Call("GetTerms", <<>>, ok))
               /\ IF ~ok
                  THEN /\ Fatal("error")
                       /\ out' = out
                  ELSE /\ out' = Append(out, Line("Terms and Conditions:", <<>>))
                       /\ pc' = After("terms")
                       /\ UNCHANGED <<fatal, exit>>
       ELSE /\ pc' = After("terms")
            /\ UNCHANGED <<calls, out, fatal, exit>>
    /\ UNCHANGED <<flagVars, doVars, err, resultVars, loopVars>>

\* printTLDStatus of every record, lines 113-115 and 187-189
RECURSIVE StatusLines(_, _)
StatusLines(all, k) ==
    IF k > Len(all) THEN <<>>
    ELSE <<Line("status", <<all[k].TLD, all[k].CurrentStatus>>)>>
         \o StatusLines(all, k + 1)

\* lines 107-116: client.GetTLDStatus(); its err is a new variable of the block
Status ==
    /\ pc = "status"
    /\ IF status
       THEN \E ok \in BOOLEAN, allTLDStatus \in StatusResults :
               /\ calls' = Append(calls, Call("GetTLDStatus", <<>>, ok))
               /\ IF ~ok
                  THEN /\ Fatal("error")
                       /\ out' = out
                  ELSE /\ out' = out \o StatusLines(allTLDStatus, 1)
                       /\ pc' = After("status")
                       /\ UNCHANGED <<fatal, exit>>
       ELSE /\ pc' = After("status")
            /\ UNCHANGED <<calls, out, fatal, exit>>
    /\ UNCHANGED <<flagVars, doVars, err, resultVars, loopVars>>

\* RequestReport with the summary printed before the test of line 134
RequestReportPrintFirst(requested, ok) ==
    /\ out' = IF Len(requested) > 0
              THEN Append(out, Line("Requested", requested))
              ELSE out
    /\ IF ~ok
       THEN Fatal("error")
       ELSE /\ pc' = After("request")
            /\ UNCHANGED <<fatal, exit>>

\* lines 134-139: the request block after its remote call has returned
RequestReport(requested, ok) ==
    IF ~ok
    THEN /\ Fatal("error")
         /\ out' = out
    ELSE /\ out' = IF Len(requested) > 0
                   THEN Append(out, Line("Requested", requested))
                   ELSE out
         /\ pc' = After("request")
         /\ UNCHANGED <<fatal, exit>>

\* Request where an empty reason skips the request block instead of ending
\* the process
RequestSkipsWithoutReason ==
    /\ pc = "request"
    /\ IF ~doRequest \/ Len(reason) = 0
       THEN /\ pc' = After("request")
            /\ UNCHANGED <<err, requestedTLDs, calls, out, fatal, exit>>
       ELSE IF requestAll
       THEN \E ok \in BOOLEAN, res \in BulkResults :
               /\ calls' = Append(calls,
                       CallRes("RequestAllTLDsExcept", <<reason, excludeList>>,
                               ok, res))
               /\ requestedTLDs' = res
               /\ err' = ErrOf(ok)
               /\ RequestReport(res, ok)
       ELSE \E ok \in BOOLEAN :
               LET t == Split(requestTLDs)
               IN /\ calls' = Append(calls, Call("RequestTLDs", <<t, reason>>, ok))
                  /\ err' = ErrOf(ok)
                  /\ requestedTLDs' = t
                  /\ RequestReport(t, ok)
    /\ UNCHANGED <<flagVars, doVars, extendedTLDs, loopVars>>

\* Request with the test of line 120 lost
RequestWithoutReasonCheck ==
    /\ pc = "request"
    /\ IF ~doRequest
       THEN /\ pc' = After("request")
            /\ UNCHANGED <<err, requestedTLDs, calls, out, fatal, exit>>
       ELSE IF requestAll
       THEN \E ok \in BOOLEAN, res \in BulkResults :
               /\ calls' = Append(calls,
                       CallRes("RequestAllTLDsExcept", <<reason, excludeList>>,
                               ok, res))
               /\ requestedTLDs' = res
               /\ err' = ErrOf(ok)
               /\ RequestReport(res, ok)
       ELSE \E ok \in BOOLEAN :
               LET t == Split(requestTLDs)
               IN /\ calls' = Append(calls, Call("RequestTLDs", <<t, reason>>, ok))
                  /\ err' = ErrOf(ok)
                  /\ requestedTLDs' = t
                  /\ RequestReport(t, ok)
    /\ UNCHANGED <<flagVars, doVars, extendedTLDs, loopVars>>

\* lines 118-140: the reason check, then client.RequestAllTLDsExcept(reason,
\* excludeList) or client.RequestTLDs(tlds, reason)
Request ==
    /\ pc = "request"
    /\ IF ~doRequest
       THEN /\ pc' = After("request")
            /\ UNCHANGED <<err, requestedTLDs, calls, out, fatal, exit>>
       ELSE IF Len(reason) = 0
       THEN /\ Fatal("Must pass a reason to request TLDs")
            /\ UNCHANGED <<err, requestedTLDs, calls, out>>
       ELSE IF requestAll
       THEN \E ok \in BOOLEAN, res \in BulkResults :
               /\ calls' = Append(calls,
                       CallRes("RequestAllTLDsExcept", <<reason, excludeList>>,
                               ok, res))
               /\ requestedTLDs' = res
               /\ err' = ErrOf(ok)
               /\ RequestReport(res, ok)
       ELSE \E ok \in BOOLEAN :
               LET t == Split(requestTLDs)
               IN /\ calls' = Append(calls, Call("RequestTLDs", <<t, reason>>, ok))
                  /\ err' = ErrOf(ok)
                  /\ requestedTLDs' = t
                  /\ RequestReport(t, ok)
    /\ UNCHANGED <<flagVars, doVars, extendedTLDs, loopVars>>

\* ExtendStart where an explicit list takes precedence over -extend-all
ExtendStartListFirst ==
    /\ pc = "extend"
    /\ IF ~doExtend
       THEN /\ pc' = After("extend")
            /\ UNCHANGED <<err, extendedTLDs, tlds, idx, calls>>
       ELSE IF extendAll /\ Len(extendTLDs) = 0
       THEN \E ok \in BOOLEAN, res \in BulkResults :
               /\ calls' = Append(calls,
                       CallRes("ExtendAllTLDsExcept", <<excludeList>>, ok, res))
               /\ extendedTLDs' = res
               /\ err' = ErrOf(ok)
               /\ pc' = "extendReport"
               /\ UNCHANGED <<tlds, idx>>
       ELSE LET t == Split(extendTLDs)
            IN /\ tlds' = t
               /\ idx' = 1
               /\ pc' = IF Len(t) = 0 THEN "extendReport" ELSE "extendLoop"
               /\ extendedTLDs' = IF Len(t) = 0 THEN t ELSE extendedTLDs
               /\ UNCHANGED <<err, calls>>
    /\ UNCHANGED <<flagVars, doVars, requestedTLDs, zoneID, out, fatal, exit>>

\* lines 141-148: client.ExtendAllTLDsExcept(excludeList), or the start of
\* the loop over strings.Split(*extendTLDs, ",")
ExtendStart ==
    /\ pc = "extend"
    /\ IF ~doExtend
       THEN /\ pc' = After("extend")
            /\ UNCHANGED <<err, extendedTLDs, tlds, idx, calls>>
       ELSE IF extendAll
       THEN \E ok \in BOOLEAN, res \in BulkResults :
               /\ calls' = Append(calls,
                       CallRes("ExtendAllTLDsExcept", <<excludeList>>, ok, res))
               /\ extendedTLDs' = res
               /\ err' = ErrOf(ok)
               /\ pc' = "extendReport"
               /\ UNCHANGED <<tlds, idx>>
       ELSE LET t == Split(extendTLDs)
            IN /\ tlds' = t
               /\ idx' = 1
               /\ pc' = IF Len(t) = 0 THEN "extendReport" ELSE "extendLoop"
               /\ extendedTLDs' = IF Len(t) = 0 THEN t ELSE extendedTLDs
               /\ UNCHANGED <<err, calls>>
    /\ UNCHANGED <<flagVars, doVars, requestedTLDs, zoneID, out, fatal, exit>>

\* ExtendTLD with the break of line 154 lost: the loop goes on after an error
ExtendTLDNoBreak ==
    /\ pc = "extendLoop"
    /\ \E ok \in BOOLEAN :
          /\ calls' = Append(calls, Call("ExtendTLD", <<tlds[idx]>>, ok))
          /\ err' = ErrOf(ok)
          /\ IF idx = Len(tlds)
             THEN /\ extendedTLDs' = tlds
                  /\ pc' = "extendReport"
                  /\ idx' = idx
             ELSE /\ idx' = idx + 1
                  /\ UNCHANGED <<pc, extendedTLDs>>
    /\ UNCHANGED <<flagVars, doVars, requestedTLDs, tlds, zoneID, out, fatal, exit>>

\* lines 149-157: one iteration of the loop, client.ExtendTLD(tld); the loop
\* ends at the first error or after the last zone, and extendedTLDs = tlds
ExtendTLD ==
    /\ pc = "extendLoop"
    /\ \E ok \in BOOLEAN :
          /\ calls' = Append(calls, Call("ExtendTLD", <<tlds[idx]>>, ok))
          /\ err' = ErrOf(ok)
          /\ IF ~ok \/ idx = Len(tlds)
             THEN /\ extendedTLDs' = tlds
                  /\ pc' = "extendReport"
                  /\ idx' = idx
             ELSE /\ idx' = idx + 1
                  /\ UNCHANGED <<pc, extendedTLDs>>
    /\ UNCHANGED <<flagVars, doVars, requestedTLDs, tlds, zoneID, out, fatal, exit>>

\* ExtendReport with the test of line 163 lost: an empty list is printed too
ExtendReportAlwaysPrints ==
    /\ pc = "extendReport"
    /\ IF err # "nil"
       THEN /\ Fatal("error")
            /\ out' = out
       ELSE /\ out' = Append(out, Line("Extended", extendedTLDs))
            /\ pc' = After("extend")
            /\ UNCHANGED <<fatal, exit>>
    /\ UNCHANGED <<flagVars, doVars, err, resultVars, loopVars, calls>>

\* ExtendReport with the test of line 160 lost: the error of the loop is
\* dropped and main() goes on
ExtendReportUnchecked ==
    /\ pc = "extendReport"
    /\ out' = IF Len(extendedTLDs) > 0
              THEN Append(out, Line("Extended", extendedTLDs))
              ELSE out
    /\ pc' = After("extend")
    /\ UNCHANGED <<fatal, exit>>
    /\ UNCHANGED <<flagVars, doVars, err, resultVars, loopVars, calls>>

\* ExtendReport with the summary printed before the test of line 160
ExtendReportPrintFirst ==
    /\ pc = "extendReport"
    /\ out' = IF Len(extendedTLDs) > 0
              THEN Append(out, Line("Extended", extendedTLDs))
              ELSE out
    /\ IF err # "nil"
       THEN Fatal("error")
       ELSE /\ pc' = After("extend")
            /\ UNCHANGED <<fatal, exit>>
    /\ UNCHANGED <<flagVars, doVars, err, resultVars, loopVars, calls>>

\* lines 160-165
ExtendReport ==
    /\ pc = "extendReport"
    /\ IF err # "nil"
       THEN /\ Fatal("error")
            /\ out' = out
       ELSE /\ out' = IF Len(extendedTLDs) > 0
                      THEN Append(out, Line("Extended", extendedTLDs))
                      ELSE out
            /\ pc' = After("extend")
            /\ UNCHANGED <<fatal, exit>>
    /\ UNCHANGED <<flagVars, doVars, err, resultVars, loopVars, calls>>

\* lines 167-169: the start of the loop over strings.Split(*cancelTLDs, ",")
CancelStart ==
    /\ pc = "cancel"
    /\ IF ~doCancel
       THEN /\ pc' = After("cancel")
            /\ UNCHANGED <<tlds, idx>>
       ELSE LET t == Split(cancelTLDs)
            IN /\ tlds' = t
               /\ idx' = 1
               /\ pc' = IF Len(t) = 0 THEN "cancelReport" ELSE "cancelLookup"
    /\ UNCHANGED <<flagVars, doVars, err, resultVars, zoneID, calls, out, fatal, exit>>

\* GetZoneRequestID with the test of line 193 lost: the cancel call follows a
\* failed lookup
GetZoneRequestIDUnchecked ==
    /\ pc = "cancelLookup"
    /\ \E ok \in BOOLEAN, id \in RequestIDs :
          /\ calls' = Append(calls, CallRes("GetZoneRequestID", <<tlds[idx]>>, ok,
                                            IF ok THEN id ELSE ""))
          /\ zoneID' = id
          /\ pc' = "cancelCall"
          /\ err' = err
    /\ UNCHANGED <<flagVars, doVars, resultVars, tlds, idx, out, fatal, exit>>

\* GetZoneRequestID with the identifier returned not kept in zoneID
GetZoneRequestIDNotStored ==
    /\ pc = "cancelLookup"
    /\ \E ok \in BOOLEAN, id \in RequestIDs :
          /\ calls' = Append(calls, CallRes("GetZoneRequestID", <<tlds[idx]>>, ok,
                                            IF ok THEN id ELSE ""))
          /\ zoneID' = zoneID
          /\ IF ~ok
             THEN /\ err' = "error"
                  /\ pc' = "cancelReport"
             ELSE /\ pc' = "cancelCall"
                  /\ err' = err
    /\ UNCHANGED <<flagVars, doVars, resultVars, tlds, idx, out, fatal, exit>>

\* lines 170-176 and 191-195: cancelRequest(tld) up to the return of
\* client.GetZoneRequestID(zone); an error is returned to the loop, which stops
GetZoneRequestID ==
    /\ pc = "cancelLookup"
    /\ \E ok \in BOOLEAN, id \in RequestIDs :
          /\ calls' = Append(calls, CallRes("GetZoneRequestID", <<tlds[idx]>>, ok,
                                            IF ok THEN id ELSE ""))
          /\ IF ~ok
             THEN /\ err' = "error"
                  /\ pc' = "cancelReport"
                  /\ zoneID' = zoneID
             ELSE /\ zoneID' = id
                  /\ pc' = "cancelCall"
                  /\ err' = err
    /\ UNCHANGED <<flagVars, doVars, resultVars, tlds, idx, out, fatal, exit>>

\* CancelRequest that tries the same zone again after an error
CancelRequestRetries ==
    /\ pc = "cancelCall"
    /\ \E ok \in BOOLEAN :
          /\ calls' = Append(calls, Call("CancelRequest", <<zoneID, tlds[idx]>>, ok))
          /\ err' = ErrOf(ok)
          /\ IF ok /\ idx = Len(tlds)
             THEN /\ pc' = "cancelReport"
                  /\ idx' = idx
             ELSE /\ idx' = IF ok THEN idx + 1 ELSE idx
                  /\ pc' = "cancelLookup"
    /\ UNCHANGED <<flagVars, doVars, resultVars, tlds, zoneID, out, fatal, exit>>

\* lines 196-204 and 172-176: client.CancelRequest of the request found, the
\* return of cancelRequest and the loop's test
CancelRequest ==
    /\ pc = "cancelCall"
    /\ \E ok \in BOOLEAN :
          /\ calls' = Append(calls, Call("CancelRequest", <<zoneID, tlds[idx]>>, ok))
          /\ err' = ErrOf(ok)
          /\ IF ~ok \/ idx = Len(tlds)
             THEN /\ pc' = "cancelReport"
                  /\ idx' = idx
             ELSE /\ idx' = idx + 1
                  /\ pc' = "cancelLookup"
    /\ UNCHANGED <<flagVars, doVars, resultVars, tlds, zoneID, out, fatal, exit>>

\* lines 178-184
CancelReport ==
    /\ pc = "cancelReport"
    /\ IF err # "nil"
       THEN /\ Fatal("error")
            /\ out' = out
       ELSE /\ out' = IF Len(tlds) > 0
                      THEN Append(out, Line("Canceled", tlds))
                      ELSE out
            /\ pc' = After("cancel")
            /\ UNCHANGED <<fatal, exit>>
    /\ UNCHANGED <<flagVars, doVars, err, resultVars, loopVars, calls>>

\* line 185: main() returns
Return ==
    /\ pc = "return"
    /\ pc' = "exited"
    /\ exit' = "exit0"
    /\ UNCHANGED <<flagVars, doVars, err, resultVars, loopVars, calls, out, fatal>>

Next ==
    \/ Setup
    \/ Authenticate
    \/ Terms
    \/ Status
    \/ Request
    \/ ExtendStart
    \/ ExtendTLD
    \/ ExtendReport
    \/ CancelStart
    \/ GetZoneRequestID
    \/ CancelRequest
    \/ CancelReport
    \/ Return

Spec == Init /\ [][Next]_vars

\* main() is one sequential thread and every remote call is a blocking round
\* trip that returns: a step that can be taken is taken
FairSpec == Spec /\ WF_vars(Next)

(* ------------------- strings.Split on its own -------------------------- *)
\* characters of a list flag: two zone letters and the separator
SplitChar == {"a", "b", Sep}

SplitInputs == UNION {[1..k -> SplitChar] : k \in 0..MaxSplitLen}

\* any value of -exclude, nothing done yet
SplitInit ==
    /\ printTerms = FALSE
    /\ status = FALSE
    /\ requestAll = FALSE
    /\ extendAll = FALSE
    /\ requestTLDs = <<>>
    /\ extendTLDs = <<>>
    /\ cancelTLDs = <<>>
    /\ exclude \in SplitInputs
    /\ reason = <<>>
    /\ universe = <<>>
    /\ pc = "split"
    /\ doRequest = FALSE
    /\ doExtend = FALSE
    /\ doCancel = FALSE
    /\ excludeList = <<>>
    /\ err = "nil"
    /\ requestedTLDs = <<>>
    /\ extendedTLDs = <<>>
    /\ tlds = <<>>
    /\ idx = 0
    /\ zoneID = ""
    /\ calls = <<>>
    /\ out = <<>>
    /\ fatal = ""
    /\ exit = "running"

\* line 82: excludeList := strings.Split(*exclude, ","), the statement that
\* lines 128, 148 and 169 repeat for the other list flags
SplitExclude ==
    /\ pc = "split"
    /\ excludeList' = Split(exclude)
    /\ pc' = "splitDone"
    /\ UNCHANGED <<flagVars, doRequest, doExtend, doCancel, err, resultVars,
                   loopVars, calls, out, fatal, exit>>

SplitSpec == SplitInit /\ [][SplitExclude]_vars

(* ------------------- the set resolver on its own ----------------------- *)
\* zone identifiers of the registry, and one it does not know
Zones == {<<"a">>, <<"b">>, <<"c">>}
UnknownZone == <<"d">>

\* the universes: ordered sequences of unique zones
Universes ==
    {u \in UNION {[1..k -> Zones] : k \in 0..MaxUniverse} :
        \A i \in 1..Len(u) : \A j \in 1..Len(u) : i # j => u[i] # u[j]}

\* the exclusion lists: known and unknown zones, duplicates allowed
Exclusions == UNION {[1..k -> Zones \cup {UnknownZone}] : k \in 0..MaxExclude}

\* a resolver that looks at the first exclusion only
ResolveAllExceptFirstOnly(u, exclusions) ==
    SelectSeq(u, LAMBDA z : Len(exclusions) = 0 \/ exclusions[1] # z)

\* ResolveAllExcept(universe, exclusions): every zone of the universe that is
\* not among the exclusions, in the universe's order
ResolveAllExcept(u, exclusions) ==
    SelectSeq(u, LAMBDA z : \A k \in 1..Len(exclusions) : exclusions[k] # z)

\* any universe and any exclusion list, nothing done yet
ResolveInit ==
    /\ printTerms = FALSE
    /\ status = FALSE
    /\ requestAll = TRUE
    /\ extendAll = TRUE
    /\ requestTLDs = <<>>
    /\ extendTLDs = <<>>
    /\ cancelTLDs = <<>>
    /\ exclude = <<>>
    /\ reason = <<"r">>
    /\ universe \in Universes
    /\ pc = "resolve"
    /\ doRequest = TRUE
    /\ doExtend = TRUE
    /\ doCancel = FALSE
    /\ excludeList \in Exclusions
    /\ err = "nil"
    /\ requestedTLDs = <<>>
    /\ extendedTLDs = <<>>
    /\ tlds = <<>>
    /\ idx = 0
    /\ zoneID = ""
    /\ calls = <<>>
    /\ out = <<>>
    /\ fatal = ""
    /\ exit = "running"

\* the zone set of a bulk request: RequestAllTLDsExcept(reason, excludeList)
ResolveRequest ==
    /\ pc = "resolve"
    /\ requestedTLDs' = ResolveAllExcept(universe, excludeList)
    /\ pc' = "resolvedRequest"
    /\ UNCHANGED <<flagVars, doVars, err, extendedTLDs, loopVars, calls, out,
                   fatal, exit>>

\* the zone set of a bulk extension: ExtendAllTLDsExcept(excludeList)
ResolveExtend ==
    /\ pc = "resolve"
    /\ extendedTLDs' = ResolveAllExcept(universe, excludeList)
    /\ pc' = "resolvedExtend"
    /\ UNCHANGED <<flagVars, doVars, err, requestedTLDs, loopVars, calls, out,
                   fatal, exit>>

ResolveNext ==
    \/ ResolveRequest
    \/ ResolveExtend

ResolveSpec == ResolveInit /\ [][ResolveNext]_vars

(* ------------------------------ properties ---------------------------- *)
CallsOf(ops) == SelectSeq(calls, LAMBDA c : c.op \in ops)

Printed(kind) == SelectSeq(out, LAMBDA l : l.kind = kind)

AuthFailed == \E k \in 1..Len(calls) :
                 calls[k].op = "Authenticate" /\ ~calls[k].ok

\* C1: if Authenticate fails, the invocation terminates with failure and no
\* other remote call is ever issued, whatever intents are enabled.
C1_AuthFailureIsFatal ==
    AuthFailed =>
        /\ exit = "exit1"
        /\ pc = "exited"
        /\ Len(calls) = 1
        /\ \A k \in 1..Len(calls) : calls[k].op = "Authenticate"

\* C1's case: authentication failed with every intent enabled
C1_Witness ==
    /\ AuthFailed
    /\ printTerms /\ status /\ requestAll /\ extendAll
    /\ Len(requestTLDs) > 0 /\ Len(extendTLDs) > 0 /\ Len(cancelTLDs) > 0
    /\ exit = "exit1"

ExtendCalls == CallsOf({"ExtendTLD"})

\* C2: in Extend-explicit mode with input list L, the ExtendTLD calls are
\* issued one per list position, in input order, without retry; after a
\* failed call no further ExtendTLD call (nor any other call) is issued, so
\* that a first failure at position i leaves exactly L[1..i] attempted; and
\* the process terminates with failure.
C2_ExtendStopsAtFirstFailure ==
    LET L == Split(extendTLDs)
        E == ExtendCalls
    IN /\ Len(E) > 0 => ~extendAll /\ Len(extendTLDs) > 0
       /\ Len(E) <= Len(L)
       /\ \A k \in 1..Len(E) : E[k].arg = <<L[k]>>
       /\ \A k \in 1..Len(E) : ~E[k].ok =>
             /\ k = Len(E)
             /\ calls[Len(calls)] = E[k]
             /\ pc \in {"extendReport", "exited"}
             /\ pc = "exited" => exit = "exit1"
       /\ (pc \in {"extendReport", "cancel"} /\ Len(E) > 0 /\ err = "nil")
             => Len(E) = Len(L)

\* C2's case: a list of three zones, the call for the second one failed, the
\* process has ended
C2_Witness ==
    /\ Len(Split(extendTLDs)) = 3
    /\ Len(ExtendCalls) = 2
    /\ ExtendCalls[1].ok /\ ~ExtendCalls[2].ok
    /\ pc = "exited"

LookupCalls == CallsOf({"GetZoneRequestID"})
CancelCalls == CallsOf({"CancelRequest"})
CancelWorkflowCalls == CallsOf({"GetZoneRequestID", "CancelRequest"})

ExtendFailed == \E k \in 1..Len(calls) :
                   calls[k].op = "ExtendTLD" /\ ~calls[k].ok
CancelFailed == \E k \in 1..Len(calls) :
                   /\ calls[k].op \in {"GetZoneRequestID", "CancelRequest"}
                   /\ ~calls[k].ok

\* C3 as stated: a sequential explicit workflow in which a per-zone call
\* failed still reports the full literal input list as the set acted upon.
C3_FailedWorkflowReportsFullList ==
    /\ (pc = "exited" /\ ExtendFailed) =>
          Printed("Extended") = <<Line("Extended", Split(extendTLDs))>>
    /\ (pc = "exited" /\ CancelFailed) =>
          Printed("Canceled") = <<Line("Canceled", Split(cancelTLDs))>>

\* C3 amended: when a per-zone call of a sequential explicit workflow fails,
\* the list the workflow holds as acted upon is the full literal input list,
\* but the process ends with failure before any summary line: nothing is
\* reported.  A summary line of an explicit workflow is printed only after
\* every per-zone call succeeded, and then it is the full literal list.
C3_FailedWorkflowReportsNothing ==
    /\ ExtendFailed =>
          /\ extendedTLDs = Split(extendTLDs)
          /\ Printed("Extended") = <<>>
          /\ pc = "exited" => exit = "exit1"
    /\ CancelFailed =>
          /\ tlds = Split(cancelTLDs)
          /\ Printed("Canceled") = <<>>
          /\ pc = "exited" => exit = "exit1"
    /\ (Printed("Extended") # <<>> /\ ~extendAll) =>
          /\ Printed("Extended") = <<Line("Extended", Split(extendTLDs))>>
          /\ Len(ExtendCalls) = Len(Split(extendTLDs))
    /\ Printed("Canceled") # <<>> =>
          /\ Printed("Canceled") = <<Line("Canceled", Split(cancelTLDs))>>
          /\ Len(CancelCalls) = Len(Split(cancelTLDs))

\* C3's case: three zones to extend, the second call failed, the process has
\* ended holding the full list and having printed no summary
C3_Witness ==
    /\ ExtendFailed
    /\ Len(ExtendCalls) = 2
    /\ Len(extendedTLDs) = 3
    /\ Printed("Extended") = <<>>
    /\ exit = "exit1"

\* C4: in the Cancel workflow with input list L, if GetZoneRequestID fails
\* for L[i], CancelRequest is not invoked for position i, no lookup or cancel
\* call is issued for a later position, and the process terminates with
\* failure.
C4_LookupFailureStopsCancel ==
    LET L == Split(cancelTLDs)
        G == LookupCalls
    IN /\ Len(G) <= Len(L)
       /\ \A i \in 1..Len(G) :
             /\ G[i].arg = <<L[i]>>
             /\ ~G[i].ok =>
                   /\ i = Len(G)
                   /\ Len(CancelCalls) = i - 1
                   /\ calls[Len(calls)] = G[i]
                   /\ pc \in {"cancelReport", "exited"}
                   /\ pc = "exited" => exit = "exit1"

\* C4's case: two zones to cancel, the lookup of the first one failed, the
\* process has ended
C4_Witness ==
    /\ Len(Split(cancelTLDs)) = 2
    /\ Len(LookupCalls) = 1
    /\ ~LookupCalls[1].ok
    /\ CancelCalls = <<>>
    /\ exit = "exit1"

RequestIntent == requestAll \/ Len(requestTLDs) > 0

\* C5 as stated: with a Request intent and an empty reason the invocation
\* fails before any remote call: no operation of the client is ever invoked.
C5_NoCallWithoutReason ==
    (RequestIntent /\ Len(reason) = 0) => calls = <<>>

\* C5 amended: with a Request intent and an empty reason the invocation
\* fails before any request, extend or cancel call: the only operations ever
\* invoked are Authenticate and, when enabled, GetTerms and GetTLDStatus,
\* which run before the reason is looked at; no summary line is printed.
C5_NoRequestCallWithoutReason ==
    (RequestIntent /\ Len(reason) = 0) =>
        /\ \A k \in 1..Len(calls) :
              calls[k].op \in {"Authenticate", "GetTerms", "GetTLDStatus"}
        /\ Printed("Requested") = <<>>
        /\ Printed("Extended") = <<>>
        /\ Printed("Canceled") = <<>>
        /\ pc \notin {"extend", "extendLoop", "extendReport", "cancel",
                      "cancelLookup", "cancelCall", "cancelReport", "return"}
        /\ pc = "exited" => exit = "exit1"

\* C5's case: request, terms, status and extend intents, no reason: the
\* process ended at the reason check after three calls
C5_Witness ==
    /\ RequestIntent /\ Len(reason) = 0
    /\ printTerms /\ status /\ extendAll
    /\ Len(calls) = 3
    /\ fatal = "Must pass a reason to request TLDs"

RequestCalls == CallsOf({"RequestTLDs", "RequestAllTLDsExcept"})

\* the reason argument of a request call
ReasonOf(c) == IF c.op = "RequestTLDs" THEN c.arg[2] ELSE c.arg[1]

\* C6: no RequestTLDs or RequestAllTLDsExcept call is ever issued with an
\* empty reason, and an empty reason with a Request intent always ends in
\* fatal termination.
C6_ReasonNonEmpty ==
    /\ \A k \in 1..Len(RequestCalls) :
          /\ Len(ReasonOf(RequestCalls[k])) > 0
          /\ ReasonOf(RequestCalls[k]) = reason
    /\ (RequestIntent /\ Len(reason) = 0 /\ pc = "exited") => exit = "exit1"
    /\ (RequestIntent /\ Len(reason) = 0) => pc # "return"

\* C6's case: an explicit request without a reason, authenticated, ended at
\* the reason check
C6_Witness ==
    /\ ~requestAll /\ Len(requestTLDs) > 0 /\ Len(reason) = 0
    /\ Len(calls) = 1 /\ calls[1].ok
    /\ exit = "exit1"

ExtendIntent == extendAll \/ Len(extendTLDs) > 0
CancelIntent == Len(cancelTLDs) > 0

\* C7: each of the five workflows runs if and only if its own intent is
\* enabled, independently of the other intents: a workflow's calls are
\* issued only under its intent, an invocation that ends normally has run
\* every enabled workflow, the cancel calls are issued exactly when a
\* non-empty cancel list was supplied, and a cancel list alone is something
\* to do.
C7_WorkflowRunsIffEnabled ==
    /\ CallsOf({"GetTerms"}) # <<>> => printTerms
    /\ CallsOf({"GetTLDStatus"}) # <<>> => status
    /\ RequestCalls # <<>> => RequestIntent
    /\ CallsOf({"ExtendTLD", "ExtendAllTLDsExcept"}) # <<>> => ExtendIntent
    /\ CancelWorkflowCalls # <<>> => CancelIntent
    /\ exit = "exit0" =>
          /\ printTerms => CallsOf({"GetTerms"}) # <<>>
          /\ status => CallsOf({"GetTLDStatus"}) # <<>>
          /\ RequestIntent => RequestCalls # <<>>
          /\ ExtendIntent => CallsOf({"ExtendTLD", "ExtendAllTLDsExcept"}) # <<>>
          /\ CancelIntent => CancelWorkflowCalls # <<>>
    /\ CancelIntent => fatal # "Nothing to do!"

\* the place of an operation's workflow in the documented order: terms,
\* status, request, extend, cancel, all after authentication
Rank(op) ==
    CASE op = "Authenticate" -> 0
      [] op = "GetTerms" -> 1
      [] op = "GetTLDStatus" -> 2
      [] op \in {"RequestTLDs", "RequestAllTLDsExcept"} -> 3
      [] op \in {"ExtendTLD", "ExtendAllTLDsExcept"} -> 4
      [] op \in {"GetZoneRequestID", "CancelRequest"} -> 5

\* C8: the remote calls of one invocation occur in the fixed order terms,
\* status, request, extend, cancel: each call belongs to the workflow of the
\* call before it or to a later one, so a call of a later workflow never
\* precedes a call of an earlier one and workflows never interleave.
C8_FixedWorkflowOrder ==
    \A k \in 1..(Len(calls) - 1) :
        Rank(calls[k].op) <= Rank(calls[k + 1].op)

\* C8's case: all five workflows have issued calls and the process ended
\* normally
C8_Witness ==
    /\ CallsOf({"GetTerms"}) # <<>>
    /\ CallsOf({"GetTLDStatus"}) # <<>>
    /\ RequestCalls # <<>>
    /\ Len(ExtendCalls) > 1
    /\ Len(CancelCalls) > 1
    /\ exit = "exit0"

AllCallsOk == \A k \in 1..Len(calls) : calls[k].ok

LastCallFailed == Len(calls) > 0 /\ ~calls[Len(calls)].ok

PreconditionFailed ==
    fatal \in {"Nothing to do!", "Must pass a reason to request TLDs"}

\* C9: the invocation terminates normally if and only if every remote call
\* it issued succeeded and no precondition failed; after a remote call has
\* returned an error no further remote call is issued and the process
\* terminates with failure; and failure is declared for a remote error only
\* when the last call issued failed, never for an error of an earlier call.
C9_ExitReflectsOutcome ==
    /\ \A k \in 1..(Len(calls) - 1) : calls[k].ok
    /\ LastCallFailed =>
          /\ pc \in {"extendReport", "cancelReport", "exited"}
          /\ pc = "exited" => exit = "exit1"
    /\ pc = "exited" =>
          ((exit = "exit0") <=> (AllCallsOk /\ ~PreconditionFailed))
    /\ fatal = "error" => LastCallFailed
    /\ err = "error" => LastCallFailed

\* C9's case: terms, request and extend succeeded, then a cancel call failed
\* and the process ended with failure
C9_Witness ==
    /\ Len(calls) > 4
    /\ LastCallFailed
    /\ calls[Len(calls)].op = "CancelRequest"
    /\ Printed("Extended") # <<>>
    /\ exit = "exit1"

ExplicitRequestCalls == CallsOf({"RequestTLDs"})

RequestExplicit == ~requestAll /\ Len(requestTLDs) > 0

\* C10: in Request-explicit mode exactly one RequestTLDs call is issued, with
\* the literal input list and the reason; if it succeeds the reported
\* requested set is the literal input list, and if it fails the process ends
\* with failure and no requested set is reported.
C10_ExplicitRequest ==
    LET R == ExplicitRequestCalls
        L == Split(requestTLDs)
    IN /\ Len(R) <= 1
       /\ Len(R) = 1 => RequestExplicit /\ R[1].arg = <<L, reason>>
       /\ RequestExplicit => CallsOf({"RequestAllTLDsExcept"}) = <<>>
       /\ (RequestExplicit /\ exit = "exit0") => Len(R) = 1
       /\ (Len(R) = 1 /\ R[1].ok) =>
             Printed("Requested") = <<Line("Requested", L)>>
       /\ (Len(R) = 1 /\ ~R[1].ok) =>
             /\ exit = "exit1"
             /\ Printed("Requested") = <<>>
       /\ (RequestExplicit /\ Len(R) = 0) => Printed("Requested") = <<>>

\* C10's case: a two-token list was requested with success and reported
C10_Witness ==
    /\ Len(ExplicitRequestCalls) = 1
    /\ ExplicitRequestCalls[1].ok
    /\ Len(Split(requestTLDs)) = 2
    /\ Printed("Requested") # <<>>

RECURSIVE CountSep(_, _)
\* the number of separators in s from position k on
CountSep(s, k) ==
    IF k > Len(s) THEN 0
    ELSE (IF s[k] = Sep THEN 1 ELSE 0) + CountSep(s, k + 1)

RECURSIVE JoinFrom(_, _)
\* the tokens from position k on, written with a separator between them
JoinFrom(list, k) ==
    IF k > Len(list) THEN <<>>
    ELSE IF k = Len(list) THEN list[k]
    ELSE list[k] \o <<Sep>> \o JoinFrom(list, k + 1)

\* C11: splitting the user-supplied list preserves input order and token
\* count exactly: the tokens, none of which holds a separator, written back
\* with separators are the input (so duplicates and empty tokens are kept in
\* place), there is one token more than separators, the empty input yields
\* exactly one empty token, and the list is never empty.
C11_SplitPreservesTokens ==
    pc = "splitDone" =>
        /\ Len(excludeList) = CountSep(exclude, 1) + 1
        /\ JoinFrom(excludeList, 1) = exclude
        /\ \A k \in 1..Len(excludeList) :
              \A j \in 1..Len(excludeList[k]) : excludeList[k][j] # Sep
        /\ Len(excludeList) >= 1
        /\ exclude = <<>> => excludeList = << <<>> >>

\* C11's case: a list with a duplicate zone and an empty token between two
\* adjacent separators has been split
C11_Witness ==
    /\ pc = "splitDone"
    /\ exclude = <<"a", Sep, Sep, "a">>
    /\ excludeList = << <<"a">>, <<>>, <<"a">> >>

\* the zones of a list
ZonesOf(list) == {list[k] : k \in 1..Len(list)}

\* C12: for every universe U (ordered, unique zones) and exclusion list E,
\* the resolved set contains z iff z is in U and z is not in E, in U's order;
\* exclusions absent from U are ignored; hence the zone set of a bulk Request
\* or bulk Extend is a subset of the universe minus the exclusions.
C12_ResolveAllExcept ==
    pc \in {"resolvedRequest", "resolvedExtend"} =>
        LET R == IF pc = "resolvedRequest" THEN requestedTLDs ELSE extendedTLDs
            U == universe
            E == excludeList
        IN /\ \A z \in Zones \cup {UnknownZone} :
                 (z \in ZonesOf(R)) <=> (z \in ZonesOf(U) /\ z \notin ZonesOf(E))
           /\ \A i \in 1..Len(R) : \A j \in 1..Len(R) :
                 i < j => IndexOf(U, R[i], 1) < IndexOf(U, R[j], 1)
           /\ ZonesOf(R) \subseteq ZonesOf(U) \ ZonesOf(E)
           /\ Len(R) = Cardinality(ZonesOf(U) \ ZonesOf(E))

\* C12's case: universe [a, b, c] with b and an unknown zone excluded has
\* been resolved to [a, c] for a bulk request
C12_Witness ==
    /\ pc = "resolvedRequest"
    /\ universe = << <<"a">>, <<"b">>, <<"c">> >>
    /\ excludeList = << UnknownZone, <<"b">> >>
    /\ requestedTLDs = << <<"a">>, <<"c">> >>

\* C13: in the Cancel workflow every CancelRequest(id, zone) call comes
\* immediately after a successful GetZoneRequestID(zone) call for the same
\* list position, with the identifier that lookup returned; zones are taken
\* in input order, with at most one lookup and at most one cancel per list
\* position, and the workflow stops at the first failing lookup or cancel.
C13_CancelFollowsLookup ==
    LET L == Split(cancelTLDs)
        G == LookupCalls
        C == CancelCalls
    IN /\ \A k \in 1..Len(calls) :
             calls[k].op = "CancelRequest" =>
                /\ k > 1
                /\ calls[k - 1].op = "GetZoneRequestID"
                /\ calls[k - 1].ok
                /\ calls[k - 1].arg = <<calls[k].arg[2]>>
                /\ calls[k - 1].res = calls[k].arg[1]
       /\ Len(G) <= Len(L)
       /\ Len(C) <= Len(G)
       /\ Len(G) <= Len(C) + 1
       /\ \A i \in 1..Len(G) : G[i].arg = <<L[i]>>
       /\ \A i \in 1..Len(C) : C[i].arg[2] = L[i]
       /\ \A k \in 1..Len(calls) :
             (calls[k].op \in {"GetZoneRequestID", "CancelRequest"} /\ ~calls[k].ok)
                => k = Len(calls)

\* C13's case: two zones cancelled, each with the identifier its own lookup
\* returned, the two identifiers being different
C13_Witness ==
    /\ Len(CancelCalls) = 2
    /\ CancelCalls[1].arg[1] # CancelCalls[2].arg[1]
    /\ LookupCalls[2].res = CancelCalls[2].arg[1]
    /\ exit = "exit0"

\* C14: Authenticate is invoked exactly once per invocation that reaches the
\* remote service and precedes every other remote call: the first call is
\* Authenticate, no later call is, and any other call comes after its
\* success.
C14_AuthenticateOnceFirst ==
    /\ Len(calls) > 0 => calls[1].op = "Authenticate"
    /\ \A k \in 2..Len(calls) : calls[k].op # "Authenticate"
    /\ Len(calls) > 1 => calls[1].ok
    /\ pc \notin {"setup", "auth", "exited"} => Len(calls) > 0 /\ calls[1].ok

\* C14's case: terms, status, a request and an extension were run after one
\* authentication
C14_Witness ==
    /\ Len(calls) > 4
    /\ Len(CallsOf({"Authenticate"})) = 1
    /\ CallsOf({"GetTerms"}) # <<>>
    /\ CallsOf({"ExtendAllTLDsExcept"}) # <<>>

BulkRequestCalls == CallsOf({"RequestAllTLDsExcept"})
BulkExtendCalls == CallsOf({"ExtendAllTLDsExcept"})

\* the request workflow has completed without error
RequestDone == \E k \in 1..Len(calls) :
                  /\ calls[k].op \in {"RequestTLDs", "RequestAllTLDsExcept"}
                  /\ calls[k].ok

\* the extend workflow has completed without error
ExtendDone ==
    /\ pc \notin {"extendLoop", "extendReport"}
    /\ IF extendAll
       THEN \E k \in 1..Len(calls) :
               calls[k].op = "ExtendAllTLDsExcept" /\ calls[k].ok
       ELSE /\ Len(ExtendCalls) > 0
            /\ Len(ExtendCalls) = Len(Split(extendTLDs))
            /\ ~ExtendFailed

\* the cancel workflow has completed without error
CancelDone ==
    /\ pc \notin {"cancelLookup", "cancelCall", "cancelReport"}
    /\ Len(CancelCalls) > 0
    /\ Len(CancelCalls) = Len(Split(cancelTLDs))
    /\ ~CancelFailed

RequestCallFailed == \E k \in 1..Len(calls) :
                        /\ calls[k].op \in {"RequestTLDs", "RequestAllTLDsExcept"}
                        /\ ~calls[k].ok

BulkExtendFailed == \E k \in 1..Len(calls) :
                       calls[k].op = "ExtendAllTLDsExcept" /\ ~calls[k].ok

\* C15 as stated: every Request, Extend or Cancel workflow that completes
\* without error prints exactly one summary line, and a workflow that ends in
\* a fatal error prints none.
C15_OneSummaryPerWorkflow ==
    /\ RequestDone => Len(Printed("Requested")) = 1
    /\ ExtendDone => Len(Printed("Extended")) = 1
    /\ CancelDone => Len(Printed("Canceled")) = 1
    /\ RequestCallFailed => Printed("Requested") = <<>>
    /\ (ExtendFailed \/ BulkExtendFailed) => Printed("Extended") = <<>>
    /\ CancelFailed => Printed("Canceled") = <<>>

\* the zones a completed request / extend workflow acted upon
RequestedList == IF requestAll THEN BulkRequestCalls[1].res
                 ELSE Split(requestTLDs)
ExtendedList == IF extendAll THEN BulkExtendCalls[1].res
                ELSE Split(extendTLDs)

\* C15 amended: a Request, Extend or Cancel workflow that completes without
\* error prints exactly one summary line listing the zones acted upon when
\* that list is not empty, and no line when it is empty (a bulk call that
\* returned no zone); a workflow that ends in a fatal error prints none.
C15_OneSummaryUnlessEmpty ==
    /\ RequestDone =>
          Printed("Requested") = IF Len(RequestedList) > 0
                                 THEN <<Line("Requested", RequestedList)>>
                                 ELSE <<>>
    /\ ExtendDone =>
          Printed("Extended") = IF Len(ExtendedList) > 0
                                THEN <<Line("Extended", ExtendedList)>>
                                ELSE <<>>
    /\ CancelDone =>
          Printed("Canceled") = <<Line("Canceled", Split(cancelTLDs))>>
    /\ RequestCallFailed => Printed("Requested") = <<>>
    /\ (ExtendFailed \/ BulkExtendFailed) => Printed("Extended") = <<>>
    /\ CancelFailed => Printed("Canceled") = <<>>

\* C15's case: a bulk request that returned no zone printed nothing, the
\* bulk extension after it printed its line, and the process ended normally
C15_Witness ==
    /\ RequestDone /\ requestAll
    /\ Len(RequestedList) = 0
    /\ Printed("Requested") = <<>>
    /\ ExtendDone
    /\ Len(Printed("Extended")) = 1
    /\ exit = "exit0"

\* C16: in bulk mode a Request (resp. Extend) workflow issues exactly one
\* remote call, RequestAllTLDsExcept (resp. ExtendAllTLDsExcept), with the
\* exclusion list computed once before authentication and passed unchanged
\* to both; the bulk flag takes precedence over an explicit list, so that no
\* RequestTLDs / ExtendTLD call is issued; on success the set reported is the
\* list the remote call returned.
C16_BulkMode ==
    LET BR == BulkRequestCalls
        BE == BulkExtendCalls
        PR == Printed("Requested")
        PE == Printed("Extended")
    IN /\ pc # "setup" /\ fatal # "Nothing to do!" => excludeList = Split(exclude)
       /\ BR # <<>> => requestAll
       /\ BE # <<>> => extendAll
       /\ requestAll =>
             /\ ExplicitRequestCalls = <<>>
             /\ Len(BR) <= 1
             /\ exit = "exit0" => Len(BR) = 1
       /\ extendAll =>
             /\ ExtendCalls = <<>>
             /\ Len(BE) <= 1
             /\ exit = "exit0" => Len(BE) = 1
       /\ \A k \in 1..Len(BR) : BR[k].arg = <<reason, Split(exclude)>>
       /\ \A k \in 1..Len(BE) : BE[k].arg = <<Split(exclude)>>
       /\ (BR # <<>> /\ BR[1].ok) =>
             /\ \A j \in 1..Len(PR) : PR[j].val = BR[1].res
             /\ Len(BR[1].res) > 0 => Len(PR) = 1
       /\ (BE # <<>> /\ BE[1].ok) =>
             /\ \A j \in 1..Len(PE) : PE[j].val = BE[1].res
             /\ (pc # "extendReport" /\ Len(BE[1].res) > 0) => Len(PE) = 1

\* C16's case: both bulk flags together with explicit lists; both bulk calls
\* succeeded and each workflow reported the list returned to it
C16_Witness ==
    /\ requestAll /\ Len(requestTLDs) > 0
    /\ extendAll /\ Len(extendTLDs) > 0
    /\ BulkRequestCalls # <<>> /\ BulkExtendCalls # <<>>
    /\ Printed("Requested") = <<Line("Requested", << <<"a">> >>)>>
    /\ Printed("Extended") = <<Line("Extended", << <<"a">> >>)>>

OnlyTermsOrStatus ==
    /\ ~requestAll /\ Len(requestTLDs) = 0
    /\ ~extendAll /\ Len(extendTLDs) = 0
    /\ Len(cancelTLDs) = 0

\* C17: an invocation whose only enabled intents are terms and/or status
\* issues no mutating remote call: the only calls ever issued are
\* Authenticate, GetTerms and GetTLDStatus, each at most once.
C17_ReadOnlyIntents ==
    OnlyTermsOrStatus =>
        /\ \A k \in 1..Len(calls) :
              calls[k].op \in {"Authenticate", "GetTerms", "GetTLDStatus"}
        /\ Len(CallsOf({"Authenticate"})) <= 1
        /\ Len(CallsOf({"GetTerms"})) <= 1
        /\ Len(CallsOf({"GetTLDStatus"})) <= 1

\* C17's case: terms and status only, with a reason given; the three calls
\* were issued and the process ended normally
C17_Witness ==
    /\ OnlyTermsOrStatus
    /\ printTerms /\ status /\ Len(reason) > 0
    /\ Len(calls) = 3
    /\ exit = "exit0"

\* C18: if the orchestrator determines that no workflow is enabled (its
\* terms, status, request, extend and cancel enablement flags are all
\* false), the invocation terminates with failure before the client is
\* created or authenticated: no remote call is issued.
C18_NothingToDo ==
    (pc # "setup" /\ ~printTerms /\ ~status /\ ~doRequest /\ ~doExtend /\ ~doCancel)
        => /\ pc = "exited"
           /\ exit = "exit1"
           /\ fatal = "Nothing to do!"
           /\ calls = <<>>

\* C18's case: no flag enables a workflow and the process has ended
C18_Witness ==
    /\ pc = "exited"
    /\ ~printTerms /\ ~status /\ ~doRequest /\ ~doExtend /\ ~doCancel
    /\ calls = <<>>
    /\ exit = "exit1"

\* the remote calls an invocation may issue at most: authentication, terms,
\* status, one request call, one ExtendTLD per extend-list entry (or one bulk
\* call), one lookup and one cancel per cancel-list entry
CallBound ==
    /\ Len(ExtendCalls) <= Len(Split(extendTLDs))
    /\ Len(LookupCalls) <= Len(Split(cancelTLDs))
    /\ Len(CancelCalls) <= Len(Split(cancelTLDs))
    /\ Len(calls) <= 4 + Len(Split(extendTLDs)) + 2 * Len(Split(cancelTLDs))

\* C19: every invocation terminates: whatever the inputs, the intents and
\* the outcomes of the remote calls, the process eventually ends (normally
\* or with failure), having issued at most a number of remote calls bounded
\* by the lengths of the input lists.
C19_Terminates == ([]CallBound) /\ <>(pc = "exited")

\* C19's case: an invocation that issued as many calls as its lists allow
\* (three extensions, three lookups and three cancels) and ended normally
C19_Witness ==
    /\ Len(ExtendCalls) = 3
    /\ Len(LookupCalls) = 3
    /\ Len(CancelCalls) = 3
    /\ CallsOf({"RequestTLDs"}) # <<>>
    /\ exit = "exit0"

====
